---- MODULE Spec2Model ----
(***************************************************************************)
(* A model of EnvelopeProblemSOS (src/include/sos/EnvelopeProblemSOS.cpp): *)
(* the construction of the interpolation basis and the Clenshaw-Curtis     *)
(* objective, the registry of polynomial bounds, the assembly of the SOS   *)
(* instance and the projection of a solution.                              *)
(*                                                                         *)
(* Numbers.  The program computes in floating point (double and the        *)
(* InterpolantDouble type of the build).  The model computes the same      *)
(* expressions exactly: a number is a pair <<n, d>>, a finite value n/d in  *)
(* lowest terms when d > 0, +infinity <<1, 0>>, -infinity <<-1, 0>> and    *)
(* NaN <<0, 0>>, with the IEEE rules for division by zero and for          *)
(* comparing NaN.  The Chebyshev nodes of degree 2 and 3 are not rational: *)
(* a number with an irrational part is <<n, d, s, r>>, the value           *)
(* (n + s * sqrt(r)) / d with s # 0 and r = 2 or r = 3.  Rounding is not   *)
(* modelled.  A value read from memory the program never wrote (an         *)
(* uninitialized vector, an entry past the end of a vector) is             *)
(* Indeterminate, <<0, -1>>: it stands for whatever the memory holds, and  *)
(* so does every value computed from it, unless that value is NaN.         *)
(***************************************************************************)
EXTENDS Integers, Sequences, FiniteSets, TLC

----------------------------------------------------------------------------
(* Bounds of the model *)

\* the most add_polynomial calls explored in one behaviour
MaxPolys == 3

\* the largest degree for which the constructor is also run over every
\* sequence of pairwise distinct nodes of NodeValues
MaxBasisDegree == 1

\* the degrees d the constructor is run for, in the order they are explored:
\* those whose cosines cos(k n pi / (L-1)) and cos(i pi / (U-1)) lie in the
\* rationals extended by one square root, and 0, where L - 1 = 0
Degrees == <<1, 2, 3, 0>>

\* the degrees the calls on a constructed object are explored for
LifecycleDegrees == <<1, 2, 0>>

\* the values of a flag of the build, in the order they are explored
Flags == <<TRUE, FALSE>>

----------------------------------------------------------------------------
(* Floating-point values as extended rationals *)

Abs(x) == IF x < 0 THEN -x ELSE x

Sign(x) == IF x < 0 THEN -1 ELSE IF x > 0 THEN 1 ELSE 0

RECURSIVE GCD(_, _)
GCD(a, b) == IF b = 0 THEN a ELSE GCD(b, a % b)

NaN == <<0, 0>>

Inf(s) == <<s, 0>>

IsNaN(x) == x = NaN

\* a value that depends on memory the program never wrote
Indeterminate == <<0, -1>>

IsIndeterminate(x) == x = Indeterminate

IsFinite(x) == x[2] > 0

\* n/d in lowest terms, d > 0
Rat(n, d) == LET g == GCD(Abs(n), d) IN <<n \div g, d \div g>>

Num(n) == <<n, 1>>

Zero == Num(0)

One == Num(1)

\* the coefficient s of sqrt(r) in a number, and r (both 0 in a rational)
SurdPart(a) == IF Len(a) = 4 THEN a[3] ELSE 0

Radicand(a) == IF Len(a) = 4 THEN a[4] ELSE 0

\* the r of the result of an operation on a and b
CommonRadicand(a, b) == IF Radicand(a) # 0 THEN Radicand(a) ELSE Radicand(b)

\* (n + s * sqrt(r)) / den in lowest terms, den > 0
Quad(n, s, r, den) ==
    IF s = 0 THEN Rat(n, den)
    ELSE LET g == GCD(GCD(Abs(n), Abs(s)), den)
         IN  <<n \div g, den \div g, s \div g, r>>

\* the sign of a number (0 for zero and for NaN)
SignOf(a) ==
    LET n == a[1]
        s == SurdPart(a)
    IN  IF s = 0 THEN Sign(n)
        ELSE IF n = 0 \/ Sign(n) = Sign(s) THEN Sign(s)
        ELSE IF n * n > Radicand(a) * s * s THEN Sign(n)
        ELSE Sign(s)

FNeg(a) == IF Len(a) = 4 THEN <<-a[1], a[2], -a[3], a[4]>> ELSE <<-a[1], a[2]>>

FAdd(a, b) ==
    IF IsNaN(a) \/ IsNaN(b) THEN NaN
    ELSE IF IsIndeterminate(a) \/ IsIndeterminate(b) THEN Indeterminate
    ELSE IF ~IsFinite(a) /\ ~IsFinite(b) THEN (IF a = b THEN a ELSE NaN)
    ELSE IF ~IsFinite(a) THEN a
    ELSE IF ~IsFinite(b) THEN b
    ELSE Quad(a[1] * b[2] + b[1] * a[2],
              SurdPart(a) * b[2] + SurdPart(b) * a[2],
              CommonRadicand(a, b), a[2] * b[2])

FSub(a, b) == FAdd(a, FNeg(b))

FMul(a, b) ==
    IF IsNaN(a) \/ IsNaN(b) THEN NaN
    ELSE IF IsIndeterminate(a) \/ IsIndeterminate(b) THEN Indeterminate
    ELSE IF ~IsFinite(a) \/ ~IsFinite(b)
         THEN Inf(SignOf(a) * SignOf(b))   \* 0 * inf = NaN = Inf(0)
    ELSE LET r == CommonRadicand(a, b)
         IN  Quad(a[1] * b[1] + r * SurdPart(a) * SurdPart(b),
                  a[1] * SurdPart(b) + SurdPart(a) * b[1],
                  r, a[2] * b[2])

\* IEEE division: x/0 is +-infinity, 0/0 and inf/inf are NaN; a finite
\* quotient is a * conj(b) / norm(b)
FDiv(a, b) ==
    IF IsNaN(a) \/ IsNaN(b) THEN NaN
    ELSE IF IsIndeterminate(a) \/ IsIndeterminate(b) THEN Indeterminate
    ELSE IF ~IsFinite(b) THEN (IF IsFinite(a) THEN Zero ELSE NaN)
    ELSE IF b[1] = 0 /\ SurdPart(b) = 0 THEN Inf(SignOf(a))
    ELSE IF ~IsFinite(a) THEN Inf(SignOf(a) * SignOf(b))
    ELSE LET r == CommonRadicand(a, b)
             norm == b[1] * b[1] - r * SurdPart(b) * SurdPart(b)
         IN  Quad(Sign(norm) * b[2] * (a[1] * b[1] - r * SurdPart(a) * SurdPart(b)),
                  Sign(norm) * b[2] * (SurdPart(a) * b[1] - a[1] * SurdPart(b)),
                  r, a[2] * Abs(norm))

----------------------------------------------------------------------------
(* Vectors and matrices (Eigen): sequences, index k of the code is k+1 here *)

\* a function over 1..n as a tuple; TLC then computes each entry once
Tup(f) == f \o <<>>

VecAdd(v, w) == Tup([k \in 1..Len(v) |-> FAdd(v[k], w[k])])

VecSub(v, w) == Tup([k \in 1..Len(v) |-> FSub(v[k], w[k])])

VecNeg(v) == Tup([k \in 1..Len(v) |-> FNeg(v[k])])

VecScale(c, v) == Tup([k \in 1..Len(v) |-> FMul(c, v[k])])

VecDiv(v, c) == Tup([k \in 1..Len(v) |-> FDiv(v[k], c)])

VecZero(n) == Tup([k \in 1..n |-> Zero])

\* v.segment(start, n), start counted from 0
Segment(v, start, n) == Tup([k \in 1..n |-> v[start + k]])

Reverse(v) == Tup([k \in 1..Len(v) |-> v[Len(v) + 1 - k]])

RECURSIVE SumTo(_, _)
SumTo(f, n) == IF n = 0 THEN Zero ELSE FAdd(SumTo(f, n - 1), f[n])

\* the sum of the entries of v
VecSum(v) == SumTo(v, Len(v))

\* the product M * v of a matrix (a sequence of rows) and a vector
MatVec(M, v) == Tup([r \in 1..Len(M) |-> VecSum(Tup([c \in 1..Len(v) |-> FMul(M[r][c], v[c])]))])

----------------------------------------------------------------------------
(* calculate_basis_polynomials: the Lagrange basis over the nodes *)

\* shift << 0, poly_i: the coefficients of x * poly_i, one entry longer
Shift(poly) == <<Zero>> \o poly

\* MultiplyByFactor with the sign of the node lost
MultiplyByFactor_PlusNode(poly, node) ==
    VecAdd(Segment(Shift(poly), 0, Len(poly)), VecScale(node, poly))

\* one pass of the inner loop body for a node j # i:
\* poly_i = shift.segment(0, _U) + (-chebyshev_points[j] * poly_i)
MultiplyByFactor(poly, node) ==
    VecAdd(Segment(Shift(poly), 0, Len(poly)), VecScale(FNeg(node), poly))

\* the entry of shift that shift.segment(0, _U) leaves out
Discarded(poly) == Shift(poly)[Len(poly) + 1]

\* the inner loop over j (here j = 1..U) for basis element i, from the state
\* <<poly_i, denom>> reached before node j; dropped records the entries the
\* passes so far left out
RECURSIVE BasisLoop(_, _, _, _, _, _)
BasisLoop(points, i, j, poly, denom, dropped) ==
    IF j > Len(points) THEN [poly |-> poly, denom |-> denom, dropped |-> dropped]
    ELSE IF i = j THEN BasisLoop(points, i, j + 1, poly, denom, dropped)
    ELSE BasisLoop(points, i, j + 1,
                   MultiplyByFactor(poly, points[j]),
                   FMul(denom, FSub(points[i], points[j])),
                   Append(dropped, Discarded(poly)))

\* poly_i(0) = 1 on the zero vector of length U
UnitPolynomial(U) == Tup([k \in 1..U |-> IF k = 1 THEN One ELSE Zero])

\* the i-th basis element: the loop, then poly_i /= denom
BasisPolynomial(points, i) ==
    LET r == BasisLoop(points, i, 1, UnitPolynomial(Len(points)), One, <<>>)
    IN  VecDiv(r.poly, r.denom)

calculate_basis_polynomials(points) ==
    Tup([i \in 1..Len(points) |-> BasisPolynomial(points, i)])

\* get_transformation_matrix: Q(i, j) = _basis_polynomials[j][i]
get_transformation_matrix(basis) ==
    Tup([i \in 1..Len(basis) |-> Tup([j \in 1..Len(basis) |-> basis[j][i]])])

----------------------------------------------------------------------------
(* get_clenshaw_curtis_integrals *)

\* cos(p * pi / q) for integers p >= 0, q >= 0, as the code evaluates
\* cos(k * n * EIGEN_PI / (_L - 1)): the argument is NaN or infinite when
\* q = 0, and the cosine of either is NaN
CosPi(p, q) ==
    CASE q = 0 -> NaN
      [] q = 1 -> (IF p % 2 = 0 THEN One ELSE Num(-1))
      [] q = 2 -> <<One, Zero, Num(-1), Zero>>[(p % 4) + 1]
      [] q = 3 -> <<One, Rat(1, 2), Rat(-1, 2), Num(-1), Rat(-1, 2), Rat(1, 2)>>[(p % 6) + 1]
      [] q = 4 -> <<One, Quad(0, 1, 2, 2), Zero, Quad(0, -1, 2, 2),
                    Num(-1), Quad(0, -1, 2, 2), Zero, Quad(0, 1, 2, 2)>>[(p % 8) + 1]
      [] q = 6 -> <<One, Quad(0, 1, 3, 2), Rat(1, 2), Zero, Rat(-1, 2), Quad(0, -1, 3, 2),
                    Num(-1), Quad(0, -1, 3, 2), Rat(-1, 2), Zero, Rat(1, 2),
                    Quad(0, 1, 3, 2)>>[(p % 12) + 1]

\* D(k, n) after D /= (_L - 1), for k, n in 0..L-1
CosineMatrix(L, k, n) ==
    LET scale_fac == IF n = 0 \/ n = L - 1 THEN Rat(1, 2) ELSE One
    IN  FDiv(FMul(CosPi(k * n, L - 1), scale_fac), Num(L - 1))

\* FourierCoeff(m) for m in 0..L-1: entry 0 is set first, entry L-1 second
\* (so that it wins when L = 1), the inner entries last
FourierCoeff(L, U, m) ==
    IF m = L - 1 THEN FDiv(One, Num(1 - (U - 1) * (U - 1)))
    ELSE IF m = 0 THEN One
    ELSE FDiv(Num(2), Num(1 - 2 * m * 2 * m))

\* ClenshawCurtisWeights.segment(0, _L) = D.transpose() * FourierCoeff
HalfWeights(L, U) ==
    Tup([n \in 1..L |->
        VecSum(Tup([k \in 1..L |-> FMul(CosineMatrix(L, k - 1, n - 1), FourierCoeff(L, U, k - 1))]))])

\* segment(_L, _L - 1) = segment(0, _L - 1).reverse() on a vector of length U
\* whose first L entries are half
MirrorWeights(half, L) == half \o Reverse(Segment(half, 0, L - 1))

\* DoubleMidpoint without the doubling
DoubleMidpoint_Skipped(w, L) == w

\* ClenshawCurtisWeights(_L - 1) *= 2
DoubleMidpoint(w, L) == [w EXCEPT ![L] = FMul(w[L], Num(2))]

ClenshawCurtisWeights(L, U) == DoubleMidpoint(MirrorWeights(HalfWeights(L, U), L), L)

\* _objectives_vector(i) = -ClenshawCurtisWeights(i)
get_clenshaw_curtis_integrals(L, U) == VecNeg(ClenshawCurtisWeights(L, U))

----------------------------------------------------------------------------
(* Q.colPivHouseholderQr().solve(polynomial): the solution x of Q x = p.   *)
(* In exact arithmetic every pivoting order yields the same x when Q is    *)
(* invertible; the model eliminates with the first non-zero pivot.         *)

\* Gauss-Jordan elimination of the augmented matrix M from column c on
RECURSIVE Eliminate(_, _)
Eliminate(M, c) ==
    IF c > Len(M) THEN M
    ELSE LET rows == {r \in c..Len(M) : M[r][c] # Zero}
         IN  IF rows = {} THEN M
             ELSE LET p == CHOOSE r \in rows : \A q \in rows : r <= q
                      swapped == [M EXCEPT ![c] = M[p], ![p] = M[c]]
                      prow == VecDiv(swapped[c], swapped[c][c])
                      next == Tup([r \in 1..Len(M) |->
                                 IF r = c THEN prow
                                 ELSE VecSub(swapped[r], VecScale(swapped[r][c], prow))])
                  IN  Eliminate(next, c + 1)

Solve(Q, p) ==
    LET n == Len(Q)
        R == Eliminate(Tup([r \in 1..n |-> Q[r] \o <<p[r]>>]), 1)
    IN  Tup([r \in 1..n |-> R[r][n + 1]])

----------------------------------------------------------------------------
(* Conversions and block assignment used by construct_SOS_instance *)

\* InterpolantVectortoVector: each entry converted to the solver's scalar
\* type; both types hold the same exact value in this model
InterpolantDoubletoIPMDouble(x) == x

InterpolantVectortoVector(v) == Tup([k \in 1..Len(v) |-> InterpolantDoubletoIPMDouble(v[k])])

\* Matrix::Zero(rows, cols)
MatZero(rows, cols) == Tup([r \in 1..rows |-> Tup([c \in 1..cols |-> Zero])])

\* Vector::Ones(n).asDiagonal()
OnesDiagonal(n) == Tup([r \in 1..n |-> Tup([c \in 1..n |-> IF r = c THEN One ELSE Zero])])

MatNeg(M) == Tup([r \in 1..Len(M) |-> VecNeg(M[r])])

\* M.block(r0, c0, rows(B), cols(B)) = B, r0 and c0 counted from 0
SetBlock(M, r0, c0, B) ==
    Tup([r \in 1..Len(M) |-> Tup([c \in 1..Len(M[r]) |->
        IF (r - r0) \in 1..Len(B) /\ (c - c0) \in 1..Len(B[1])
        THEN B[r - r0][c - c0] ELSE M[r][c]])])

\* v.block(r0, 0, n, 1) = w for the first n entries of w
SetSegment(v, r0, n, w) ==
    Tup([k \in 1..Len(v) |-> IF (k - r0) \in 1..n THEN w[k - r0] ELSE v[k]])

\* what a read of an entry of a vector without storage does: an empty Eigen
\* vector holds a null data pointer, the read is a segmentation fault
Fault == <<"SIGSEGV">>

\* entry k (from 1) of v as an unchecked coefficient read (assertions
\* compiled out) gets it: past the end of v it is whatever lies behind v's
\* storage, and a fault when v has no storage
ReadAt(v, k) ==
    IF k <= Len(v) THEN v[k] ELSE IF v = <<>> THEN Fault ELSE Indeterminate

\* an unchecked read of the first n entries of v faults
ReadFaults(v, n) == \E k \in 1..n : ReadAt(v, k) = Fault

----------------------------------------------------------------------------
(* Inputs *)

\* InterpolantVector v(n): n entries nobody has written
UninitializedVector(n) == Tup([k \in 1..n |-> Indeterminate])

\* the nodes InterpolantDualSOSBarrier(_d).get_basis() hands to
\* calculate_basis_polynomials: the U Chebyshev extrema cos(i pi / (U - 1)),
\* i = 0..U-1, from 1 down to -1; the single node of d = 0 is cos(0) (its
\* value is never read: the loop over j # i is empty)
ChebyshevNodes(deg) ==
    Tup([i \in 1..(2 * deg + 1) |-> IF deg = 0 THEN One ELSE CosPi(i - 1, 2 * deg)])

\* every sequence of n pairwise distinct nodes over these values
NodeValues == {Num(-1), Rat(-1, 2), Zero, Rat(1, 2), Num(2)}

DistinctNodes(n) ==
    {p \in [1..n -> NodeValues] : \A i, j \in 1..n : i # j => p[i] # p[j]}

\* the coefficients of x^2 - 1 cut or padded to length n
XSquaredMinusOne(n) ==
    [k \in 1..n |-> IF k = 1 THEN Num(-1) ELSE IF k = 3 THEN One ELSE Zero]

Ramp(n) == [k \in 1..n |-> Num(k)]

\* the vectors handed to add_polynomial: two of length U, and one that is
\* one entry short
PolyInputs(n) ==
    {VecZero(n), XSquaredMinusOne(n), Ramp(n - 1)}

\* the slack vectors sol.s handed to print_solution, of length >= U
SolutionInputs(n) == {[k \in 1..n |-> One], Ramp(2 * n)}

----------------------------------------------------------------------------
(* State *)

VARIABLES
    d,                           \* _d
    input_in_interpolant_basis,  \* _input_in_interpolant_basis
    use_weighted_polynomials,    \* _use_weighted_polynomials
    ndebug,                      \* the build: TRUE when assertions are compiled out
    chebyshev_points,            \* what get_basis() returns for _d
    L,                           \* _L
    U,                           \* _U
    basis_polynomials,           \* _basis_polynomials
    objectives_vector,           \* _objectives_vector
    polynomials_bounds,          \* _polynomials_bounds
    proc,                        \* "new", "running", "exited" (exit(1)), "aborted", "crashed"
    call,                        \* the last call: its name and how it ended
    arg,                         \* the argument of the last call
    result,                      \* what the last call produced
    accepted,                    \* history: the vectors add_polynomial stored, in order
    assembled                    \* history: construct_SOS_instance has returned an instance

vars == <<d, input_in_interpolant_basis, use_weighted_polynomials, ndebug,
          chebyshev_points, L, U, basis_polynomials, objectives_vector,
          polynomials_bounds, proc, call, arg, result, accepted, assembled>>

build == <<d, input_in_interpolant_basis, use_weighted_polynomials, ndebug,
           chebyshev_points>>

fields == <<L, U, basis_polynomials, objectives_vector>>

NoResult == <<>>

\* before the constructor runs: the build's flags and the degree are fixed,
\* the object holds nothing
InitWith(degrees) ==
    /\ \E i \in 1..Len(degrees) : d = degrees[i]
    /\ \E i \in 1..Len(Flags) : input_in_interpolant_basis = Flags[i]
    /\ \E i \in 1..Len(Flags) : use_weighted_polynomials = Flags[i]
    /\ \E i \in 1..Len(Flags) : ndebug = Flags[i]
    /\ L = 0
    /\ U = 0
    /\ basis_polynomials = <<>>
    /\ objectives_vector = <<>>
    /\ polynomials_bounds = <<>>
    /\ proc = "new"
    /\ call = [op |-> "none", outcome |-> "none"]
    /\ arg = <<>>
    /\ result = NoResult
    /\ accepted = <<>>
    /\ assembled = FALSE

SpecNodes(deg) == {ChebyshevNodes(deg)}

Init == InitWith(LifecycleDegrees) /\ chebyshev_points \in SpecNodes(d)

----------------------------------------------------------------------------
(* Operations *)

\* EnvelopeProblemSOS::EnvelopeProblemSOS, called with num_variables = 1 and
\* a hyper-rectangle of one interval (its assertions hold)
EnvelopeProblemSOS ==
    /\ proc = "new"
    /\ L' = d + 1
    /\ U' = 2 * d + 1
    /\ basis_polynomials' = IF ~input_in_interpolant_basis
                            THEN calculate_basis_polynomials(chebyshev_points)
                            ELSE <<>>
    /\ objectives_vector' = get_clenshaw_curtis_integrals(d + 1, 2 * d + 1)
    /\ proc' = "running"
    /\ call' = [op |-> "EnvelopeProblemSOS", outcome |-> "returned"]
    /\ UNCHANGED <<build, polynomials_bounds, arg, result, accepted, assembled>>

\* PushBack inserting at the front
PushBack_AtFront(list, v) == <<v>> \o list

\* _polynomials_bounds.push_back(v)
PushBack(list, v) == Append(list, v)

\* the vector add_polynomial stores for the argument: the argument itself
\* in interpolant mode, else the solution of Q x = polynomial; when the
\* argument's length is not that of Q (no check is made) the solve reads
\* past the argument's end and its result is indeterminate
StoredPolynomial(polynomial) ==
    IF input_in_interpolant_basis THEN polynomial
    ELSE IF Len(polynomial) = Len(basis_polynomials)
         THEN Solve(get_transformation_matrix(basis_polynomials), polynomial)
         ELSE UninitializedVector(U)

\* the solve of add_polynomial meets a right-hand side of the wrong length:
\* an Eigen assertion when assertions are compiled in
AddAsserts(polynomial) ==
    ~input_in_interpolant_basis /\ Len(polynomial) # Len(basis_polynomials)

add_polynomial(polynomial) ==
    /\ proc = "running"
    /\ Len(polynomials_bounds) < MaxPolys
    /\ IF AddAsserts(polynomial) /\ ~ndebug
       THEN /\ proc' = "aborted"
            /\ call' = [op |-> "add_polynomial", outcome |-> "abort"]
            /\ UNCHANGED <<polynomials_bounds, accepted>>
       ELSE IF AddAsserts(polynomial) /\ ReadFaults(polynomial, U)
       THEN \* the solve reads the entries of a right-hand side without storage
            /\ proc' = "crashed"
            /\ call' = [op |-> "add_polynomial", outcome |-> "segfault"]
            /\ UNCHANGED <<polynomials_bounds, accepted>>
       ELSE LET stored == StoredPolynomial(polynomial)
            IN  /\ polynomials_bounds' = PushBack(polynomials_bounds, stored)
                /\ accepted' = Append(accepted, stored)
                /\ proc' = proc
                /\ call' = [op |-> "add_polynomial", outcome |-> "returned"]
    /\ arg' = polynomial
    /\ result' = NoResult
    /\ UNCHANGED <<build, fields, assembled>>

\* constraints.c: zero but for the first block, -InterpolantVectortoVector(objective)
CostVector(N, objective) ==
    SetSegment(VecZero(N * Len(objective)), 0, Len(objective),
               VecNeg(InterpolantVectortoVector(objective)))

\* the loop over poly_idx (from 0) filling A and b, over registered vectors
\* that all have storage
RECURSIVE AssembleLoop(_, _, _, _, _)
AssembleLoop(poly_idx, bounds, n, A, b) ==
    IF poly_idx >= Len(bounds) - 1 THEN [A |-> A, b |-> b]
    ELSE LET polynomial == InterpolantVectortoVector(bounds[poly_idx + 2])
             reference == InterpolantVectortoVector(bounds[1])
             poly_block == OnesDiagonal(n)
             AX == SetBlock(A, poly_idx * n, 0, MatNeg(poly_block))
             AY == SetBlock(AX, poly_idx * n, (poly_idx + 1) * n, poly_block)
             rhs == Tup([k \in 1..n |-> FSub(ReadAt(polynomial, k), ReadAt(reference, k))])
         IN  AssembleLoop(poly_idx + 1, bounds, n, AY,
                          SetSegment(b, poly_idx * n, n, rhs))

\* the primal system (A, b, c) of lines 185-205
PrimalConstraints(bounds, n, objective) ==
    LET N == Len(bounds)
        filled == AssembleLoop(0, bounds, n, MatZero((N - 1) * n, N * n),
                               VecZero((N - 1) * n))
    IN  [A |-> filled.A, b |-> filled.b, c |-> CostVector(N, objective)]

\* new InterpolantDualSOSBarrier(_d) and (_d, weighted_vec)
SOSBarrier(deg, weight) == [kind |-> "InterpolantDualSOSBarrier", degree |-> deg, weight |-> weight]

\* weighted_vec << 1., 0., -1.: the polynomial 1 - x^2
WeightedVec == <<One, Zero, Num(-1)>>

\* the sum barrier of one polynomial
SumBarrier(n, deg, weighted) ==
    [kind |-> "SumBarrier", size |-> n,
     barriers |-> IF weighted
                  THEN <<SOSBarrier(deg, <<>>), SOSBarrier(deg, WeightedVec)>>
                  ELSE <<SOSBarrier(deg, <<>>)>>]

\* ProductBarrier with the loop bound of the constraint loop, N - 1
ProductBarrier_OneShort(N, n, deg, weighted) ==
    [kind |-> "ProductBarrier",
     barriers |-> Tup([poly_idx \in 1..(N - 1) |-> SumBarrier(n, deg, weighted)])]

\* the loop of lines 222-237: one sum barrier per registered polynomial
ProductBarrier(N, n, deg, weighted) ==
    [kind |-> "ProductBarrier",
     barriers |-> Tup([poly_idx \in 1..N |-> SumBarrier(n, deg, weighted)])]

\* constraints.dual_system(): computed by the Constraints class, outside
\* this file; kept as the dual of the primal system it was given
dual_system(constraints) == [dual_of |-> constraints]

\* a registered vector whose length is not _U: the block assignments of the
\* loop then fail an Eigen size assertion
ConstructAsserts == \E k \in 1..Len(polynomials_bounds) : Len(polynomials_bounds[k]) # U

construct_SOS_instance ==
    /\ proc = "running"
    /\ IF Len(polynomials_bounds) <= 1
       THEN \* _logger->error / warn, then exit(1)
            /\ proc' = "exited"
            /\ call' = [op |-> "construct_SOS_instance", outcome |-> "exit"]
            /\ result' = NoResult
            /\ assembled' = assembled
       ELSE IF ConstructAsserts /\ ~ndebug
       THEN /\ proc' = "aborted"
            /\ call' = [op |-> "construct_SOS_instance", outcome |-> "abort"]
            /\ result' = NoResult
            /\ assembled' = assembled
       ELSE IF \E k \in 1..Len(polynomials_bounds) : ReadFaults(polynomials_bounds[k], U)
       THEN \* the block assignment of lines 203-204 reads _U entries of a
            \* registered vector without storage
            /\ proc' = "crashed"
            /\ call' = [op |-> "construct_SOS_instance", outcome |-> "segfault"]
            /\ result' = NoResult
            /\ assembled' = assembled
       ELSE LET constraints == PrimalConstraints(polynomials_bounds, U, objectives_vector)
            IN  /\ result' = [constraints |-> dual_system(constraints),
                              barrier |-> ProductBarrier(Len(polynomials_bounds), U, d,
                                                         use_weighted_polynomials)]
                /\ proc' = proc
                /\ call' = [op |-> "construct_SOS_instance", outcome |-> "returned"]
                /\ assembled' = TRUE
    /\ arg' = <<>>
    /\ UNCHANGED <<build, fields, polynomials_bounds, accepted>>

\* assert(not _polynomials_bounds.empty()), and the size assertion of
\* _polynomials_bounds[0] - sol_seg_interp
PrintAsserts ==
    \/ polynomials_bounds = <<>>
    \/ Len(polynomials_bounds[1]) # U

\* sol_vec = _polynomials_bounds[0] - sol.s.segment(0, _U), for a registry
\* whose first vector has storage
SolVec(bounds, s, n) ==
    LET reference == bounds[1]
        sol_seg == Segment(s, 0, n)
    IN  Tup([k \in 1..n |-> FSub(ReadAt(reference, k), sol_seg[k])])

\* the value of the outer `solution` when print_solution ends: assigned in
\* the interpolant branch only; the other branch fills a shadowing local
\* and leaves the outer vector as InterpolantVector solution(_U) made it
FinalSolution(sol_vec) ==
    IF ~input_in_interpolant_basis THEN UninitializedVector(Len(sol_vec)) ELSE sol_vec

\* the shadowing local of the coefficient branch: Q * sol_vec
ShadowedSolution(sol_vec) ==
    IF ~input_in_interpolant_basis
    THEN MatVec(get_transformation_matrix(basis_polynomials), sol_vec)
    ELSE <<>>

print_solution(s) ==
    /\ proc = "running"
    /\ IF PrintAsserts /\ ~ndebug
       THEN /\ proc' = "aborted"
            /\ call' = [op |-> "print_solution", outcome |-> "abort"]
            /\ result' = NoResult
       ELSE IF polynomials_bounds = <<>> \/ ReadFaults(polynomials_bounds[1], U)
       THEN \* _polynomials_bounds[0] of an empty std::vector: the element
            \* read lies at the null address; or the difference of line 264
            \* reads _U entries of a first vector without storage
            /\ proc' = "crashed"
            /\ call' = [op |-> "print_solution", outcome |-> "segfault"]
            /\ result' = NoResult
       ELSE LET sol_vec == SolVec(polynomials_bounds, s, U)
            IN  /\ result' = [sol_vec |-> sol_vec,
                              solution |-> FinalSolution(sol_vec),
                              shadowed |-> ShadowedSolution(sol_vec)]
                /\ proc' = proc
                /\ call' = [op |-> "print_solution", outcome |-> "returned"]
    /\ arg' = s
    /\ UNCHANGED <<build, fields, polynomials_bounds, accepted, assembled>>

\* the assertions plot_polynomials_and_solution meets before it computes the
\* basis: assert(not _polynomials_bounds.empty()), and the size assertion of
\* _polynomials_bounds[0] - seg_interp_vec
PlotAssertsBeforeBasis ==
    \/ polynomials_bounds = <<>>
    \/ Len(polynomials_bounds[1]) # U

\* and after it: the size assertion of Q_interp * poly_plots[poly_idx]
PlotAssertsAfterBasis == \E k \in 1..Len(polynomials_bounds) : Len(polynomials_bounds[k]) # U

\* _basis_polynomials after lines 313-316: computed now in interpolant mode
PlotBasis ==
    IF input_in_interpolant_basis THEN calculate_basis_polynomials(chebyshev_points)
    ELSE basis_polynomials

\* plot_polynomials_and_solution: the picture it draws is written to a file
\* and is not part of the state; of the object it changes _basis_polynomials
plot_polynomials_and_solution(s) ==
    /\ proc = "running"
    /\ IF PlotAssertsBeforeBasis /\ ~ndebug
       THEN /\ proc' = "aborted"
            /\ call' = [op |-> "plot_polynomials_and_solution", outcome |-> "abort"]
            /\ basis_polynomials' = basis_polynomials
       ELSE IF polynomials_bounds = <<>> \/ ReadFaults(polynomials_bounds[1], U)
       THEN \* _polynomials_bounds[0] of an empty std::vector, or the read of
            \* a first vector without storage, as in print_solution
            /\ proc' = "crashed"
            /\ call' = [op |-> "plot_polynomials_and_solution", outcome |-> "segfault"]
            /\ basis_polynomials' = basis_polynomials
       ELSE IF PlotAssertsAfterBasis /\ ~ndebug
       THEN /\ proc' = "aborted"
            /\ call' = [op |-> "plot_polynomials_and_solution", outcome |-> "abort"]
            /\ basis_polynomials' = PlotBasis
       ELSE IF \E k \in 1..Len(polynomials_bounds) : ReadFaults(polynomials_bounds[k], U)
       THEN \* Q_interp * poly_plots[poly_idx] reads a vector without storage
            /\ proc' = "crashed"
            /\ call' = [op |-> "plot_polynomials_and_solution", outcome |-> "segfault"]
            /\ basis_polynomials' = PlotBasis
       ELSE /\ proc' = proc
            /\ call' = [op |-> "plot_polynomials_and_solution", outcome |-> "returned"]
            /\ basis_polynomials' = PlotBasis
    /\ arg' = s
    /\ result' = NoResult
    /\ UNCHANGED <<build, L, U, objectives_vector, polynomials_bounds, accepted, assembled>>

Next ==
    \/ EnvelopeProblemSOS
    \/ \E polynomial \in PolyInputs(U) : add_polynomial(polynomial)
    \/ construct_SOS_instance
    \/ \E s \in SolutionInputs(U) : print_solution(s)
    \/ \E s \in SolutionInputs(U) : plot_polynomials_and_solution(s)

Spec == Init /\ [][Next]_vars

\* the constructor alone: for every degree of Degrees over its Chebyshev
\* nodes, and over every choice of pairwise distinct nodes for the degrees
\* up to MaxBasisDegree
ConstructionNodes(deg) ==
    {ChebyshevNodes(deg)} \cup
        (IF deg <= MaxBasisDegree THEN DistinctNodes(2 * deg + 1) ELSE {})

InitConstruction == InitWith(Degrees) /\ chebyshev_points \in ConstructionNodes(d)

NextConstruction == EnvelopeProblemSOS

SpecConstruction == InitConstruction /\ [][NextConstruction]_vars

----------------------------------------------------------------------------
(* Properties *)

Returned(op) == call.op = op /\ call.outcome = "returned"

\* the primal system of the instance the last call returned
Primal == result.constraints.dual_of

\* C1: construct_SOS_instance on an empty registry ends with
\* EmptyInstanceError, on a registry of one with TrivialInstanceError, both
\* handed to the caller of a process that keeps running, and no instance is
\* returned.
C1_SmallRegistryReported ==
    (call.op = "construct_SOS_instance" /\ Len(polynomials_bounds) <= 1) =>
        /\ proc = "running"
        /\ call.outcome = (IF Len(polynomials_bounds) = 0 THEN "EmptyInstanceError"
                           ELSE "TrivialInstanceError")
        /\ result = NoResult

\* C2: an add_polynomial call whose vector has a length other than U ends
\* with DimensionMismatchError and leaves the registry as it was.
C2_WrongLengthRejected ==
    [][(call'.op = "add_polynomial" /\ Len(arg') # U) =>
           /\ call'.outcome = "DimensionMismatchError"
           /\ polynomials_bounds' = polynomials_bounds]_vars

\* row-block i (from 0) of b
BlockOf(v, i, n) == Segment(v, i * n, n)

\* the entry of A that C3 names at row r, column c (from 1), block size n
ExpectedEntry(r, c, n) ==
    LET i == (r - 1) \div n
        rr == (r - 1) % n
        cb == (c - 1) \div n
        cc == (c - 1) % n
    IN  IF cc = rr /\ cb = 0 THEN Num(-1)
        ELSE IF cc = rr /\ cb = i + 1 THEN One
        ELSE Zero

\* bound[i+1] - bound[0] as vectors; no vector when their lengths differ
BoundDifference(bounds, i) ==
    IF Len(bounds[i + 2]) = Len(bounds[1]) THEN VecSub(bounds[i + 2], bounds[1]) ELSE <<>>

PrimalSystemOf(bounds, n, objective, A, b, c) ==
    LET N == Len(bounds)
    IN  /\ Len(A) = (N - 1) * n
        /\ \A r \in 1..Len(A) : Len(A[r]) = N * n
        /\ Len(b) = (N - 1) * n
        /\ Len(c) = N * n
        /\ \A r \in 1..Len(A) : \A col \in 1..(N * n) : A[r][col] = ExpectedEntry(r, col, n)
        /\ \A i \in 0..(N - 2) : BlockOf(b, i, n) = BoundDifference(bounds, i)
        /\ \A k \in 1..(N * n) : c[k] = IF k <= n THEN FNeg(objective[k]) ELSE Zero

\* C3: the primal system of a returned instance over N >= 2 registered
\* polynomials has A of shape ((N-1)U, NU) with -I in column-block 0 and +I
\* in column-block i+1 of row-block i and zero elsewhere, b's row-block i equal
\* to bound[i+1] - bound[0], and c equal to -objective on its first U entries
\* and zero after them.
C3_PrimalSystem ==
    Returned("construct_SOS_instance") =>
        PrimalSystemOf(polynomials_bounds, U, objectives_vector, Primal.A, Primal.b, Primal.c)

\* the same for a registry whose vectors all have length U (not a claim: it
\* shows that C3 fails only through the vectors C2 lets in)
PrimalSystemOfValidRegistry ==
    (Returned("construct_SOS_instance") /\ ~ConstructAsserts) =>
        PrimalSystemOf(polynomials_bounds, U, objectives_vector, Primal.A, Primal.b, Primal.c)

IsSOSBarrier(b, deg, weight) ==
    b.kind = "InterpolantDualSOSBarrier" /\ b.degree = deg /\ b.weight = weight

\* how many of the barriers a sum barrier holds carry this weight
CountWeight(sum, weight) == Cardinality({k \in 1..Len(sum.barriers) : sum.barriers[k].weight = weight})

\* C4: the barrier of a returned instance is one product barrier of exactly
\* N sum barriers, one per U-sized column block of A and c; each holds one
\* unweighted SOS barrier of degree d, and one more of degree d weighted by
\* 1 - x^2 exactly when weighting is enabled, and nothing else.
C4_BarrierStructure ==
    Returned("construct_SOS_instance") =>
        LET B == result.barrier
            N == Len(polynomials_bounds)
        IN  /\ B.kind = "ProductBarrier"
            /\ Len(B.barriers) = N
            /\ Len(B.barriers) * U = Len(Primal.c)
            /\ \A r \in 1..Len(Primal.A) : Len(B.barriers) * U = Len(Primal.A[r])
            /\ \A i \in 1..Len(B.barriers) :
                  LET S == B.barriers[i]
                  IN  /\ S.kind = "SumBarrier"
                      /\ \A k \in 1..Len(S.barriers) :
                            \/ IsSOSBarrier(S.barriers[k], d, <<>>)
                            \/ IsSOSBarrier(S.barriers[k], d, <<One, Zero, Num(-1)>>)
                      /\ CountWeight(S, <<>>) = 1
                      /\ CountWeight(S, <<One, Zero, Num(-1)>>) = (IF use_weighted_polynomials THEN 1 ELSE 0)
                      /\ Len(S.barriers) = (IF use_weighted_polynomials THEN 2 ELSE 1)

\* an instance was returned for three polynomials with weighting enabled
C4_Witness ==
    /\ Returned("construct_SOS_instance")
    /\ use_weighted_polynomials
    /\ Len(polynomials_bounds) = 3
    /\ Len(result.barrier.barriers) = 3
    /\ Len(result.barrier.barriers[3].barriers) = 2

\* C5: when print_solution ends, its solution is reference - s[0..U-1] in
\* interpolant mode and Q applied to that difference in coefficient mode.
C5_SolutionProjected ==
    (Returned("print_solution") /\ ~PrintAsserts) =>
        LET difference == VecSub(polynomials_bounds[1], Segment(arg, 0, U))
        IN  result.solution =
                IF input_in_interpolant_basis THEN difference
                ELSE MatVec(get_transformation_matrix(basis_polynomials), difference)

\* the value of the polynomial with these coefficients (lowest degree first) at x
RECURSIVE Horner(_, _, _)
Horner(poly, x, k) ==
    IF k > Len(poly) THEN Zero ELSE FAdd(poly[k], FMul(x, Horner(poly, x, k + 1)))

Eval(poly, x) == Horner(poly, x, 1)

\* the coefficients of (x - a) * p, one entry longer than p: nothing is cut
TimesLinear(p, a) ==
    Tup([k \in 1..(Len(p) + 1) |->
        FSub(IF k = 1 THEN Zero ELSE p[k - 1],
             IF k > Len(p) THEN Zero ELSE FMul(a, p[k]))])

\* prod_{j # i, j >= from} (x - points[j]) times p
RECURSIVE ProductOfFactors(_, _, _, _)
ProductOfFactors(points, i, from, p) ==
    IF from > Len(points) THEN p
    ELSE IF from = i THEN ProductOfFactors(points, i, from + 1, p)
    ELSE ProductOfFactors(points, i, from + 1, TimesLinear(p, points[from]))

\* prod_{j # i, j >= from} (points[i] - points[j])
RECURSIVE ProductOfGaps(_, _, _)
ProductOfGaps(points, i, from) ==
    IF from > Len(points) THEN One
    ELSE IF from = i THEN ProductOfGaps(points, i, from + 1)
    ELSE FMul(FSub(points[i], points[from]), ProductOfGaps(points, i, from + 1))

\* C6: over pairwise distinct nodes, basis polynomial i is the length-U
\* coefficient vector of prod_{j#i}(x - node_j) / prod_{j#i}(node_i - node_j);
\* it is 1 at node i and 0 at every other node; and every entry the passes of
\* the loop leave out of the shifted vector is 0.
C6_LagrangeBasis ==
    (proc = "running" /\ ~input_in_interpolant_basis) =>
        /\ Len(basis_polynomials) = U
        /\ \A i \in 1..U :
              /\ Len(basis_polynomials[i]) = U
              /\ basis_polynomials[i] =
                    VecDiv(ProductOfFactors(chebyshev_points, i, 1, <<One>>),
                           ProductOfGaps(chebyshev_points, i, 1))
              /\ \A k \in 1..U :
                    Eval(basis_polynomials[i], chebyshev_points[k]) = (IF i = k THEN One ELSE Zero)
              /\ LET dropped == BasisLoop(chebyshev_points, i, 1, UnitPolynomial(U), One, <<>>).dropped
                 IN  Len(dropped) = U - 1 /\ \A k \in 1..Len(dropped) : dropped[k] = Zero

\* the basis was built over three nodes that are not symmetric about 0
C6_Witness ==
    /\ proc = "running"
    /\ ~input_in_interpolant_basis
    /\ chebyshev_points = <<Num(2), Rat(-1, 2), Zero>>
    /\ basis_polynomials[1] = <<Zero, Rat(1, 10), Rat(1, 5)>>

\* the == of the floating-point type: NaN compares unequal to everything,
\* itself included
FEq(a, b) == ~IsNaN(a) /\ ~IsNaN(b) /\ a = b

\* C7: the objective vector has length U and objective[i] == objective[U-1-i]
\* for every i, for every degree.
C7_ObjectiveSymmetric ==
    proc = "running" =>
        /\ Len(objectives_vector) = U
        /\ \A i \in 1..U : FEq(objectives_vector[i], objectives_vector[U + 1 - i])

\* the symmetry for the degrees d >= 1 (not a claim: it shows that C7 fails
\* at d = 0 only)
ObjectiveSymmetricForPositiveDegree ==
    (proc = "running" /\ d >= 1) =>
        /\ Len(objectives_vector) = U
        /\ \A i \in 1..U : FEq(objectives_vector[i], objectives_vector[U + 1 - i])

\* C8: for d = 1, 2, 3 the unsigned weights sum to exactly 2: the entries of
\* the objective vector sum to -2.
C8_WeightsSumToTwo ==
    (proc = "running" /\ d \in {1, 2, 3}) =>
        /\ Len(objectives_vector) = U
        /\ VecSum(VecNeg(objectives_vector)) = Num(2)
        /\ VecSum(objectives_vector) = Num(-2)

\* the objective of degree 3 was computed: its midpoint weight is 164/315
C8_Witness ==
    /\ proc = "running"
    /\ d = 3
    /\ objectives_vector[4] = Rat(-164, 315)
    /\ objectives_vector[1] = Rat(-1, 35)

\* C9: once construct_SOS_instance has returned an instance, no call changes
\* the registry.
C9_RegistryFrozenOnceAssembled ==
    [][assembled => polynomials_bounds' = polynomials_bounds]_vars

\* list is prefix of longer, which has one entry more
ExtendsByOne(list, longer) ==
    Len(longer) = Len(list) + 1 /\ SubSeq(longer, 1, Len(list)) = list

\* C10: the registry is the list of the vectors the accepted add_polynomial
\* calls stored, in call order; a step changes it only by appending one
\* entry, in an add_polynomial call; and construct_SOS_instance and
\* print_solution leave the registry, the basis polynomials and the objective
\* vector unchanged.
C10_RegistryAppendOnly ==
    [][/\ polynomials_bounds' = accepted'
       /\ polynomials_bounds' # polynomials_bounds =>
             /\ call'.op = "add_polynomial"
             /\ ExtendsByOne(polynomials_bounds, polynomials_bounds')
       /\ call'.op \in {"construct_SOS_instance", "print_solution"} =>
             UNCHANGED <<polynomials_bounds, basis_polynomials, objectives_vector>>]_vars

\* three vectors were registered, an instance was built and a solution projected
C10_Witness ==
    /\ Len(polynomials_bounds) = 3
    /\ Len(accepted) = 3
    /\ assembled
    /\ Returned("print_solution")
    /\ polynomials_bounds[1] # polynomials_bounds[2]

====
